---- MODULE Spec2Model ----
(***************************************************************************)
(* Model of the table transformations of the Currency Exchange Tracker     *)
(* (src/data_processor.py): the OHLC normalizer prepare_chart_data, the    *)
(* volatility calculation calculate_historical_volatility and the pivot    *)
(* calculation calculate_pivot_points, with their helpers.                 *)
(*                                                                         *)
(* A table is a record [columns, index, rows]: the column labels in        *)
(* order, the index (its kind and name) and the rows, each row carrying    *)
(* its index value and one cell per column.  Labels are sequences of       *)
(* one-character strings so that lower(), strip() and startswith() are     *)
(* computed, not assumed.  A cell is [k, v]: k is the kind of Python value *)
(* ("num" a number, "numstr" a numeric string, "ts" a datetime, "iso" an   *)
(* ISO-8601 date string, "junk" any other string, "nan"/"nat" the missing  *)
(* values pandas produces) and v the number or the day it denotes.         *)
(***************************************************************************)
EXTENDS Integers, Sequences, FiniteSets, TLC

\* raw: the table the caller holds and passes; params: the other arguments of
\* the call; out: the outcome of the call; again: the outcome of passing the
\* returned table to the normalizer once more; pipe: the application's run from
\* the fetched quotes to the three derived tables; svc: an APIService object and
\* what it has done on the network
VARIABLES raw, params, out, again, pipe, svc

vars == <<raw, params, out, again, pipe, svc>>

----------------------------------------------------------------------------
(* Bounds of the explored inputs *)

MaxCols == 5
MaxRows == 2
MaxPrice == 2
MaxDate == 2
MaxBars == 4
MaxWindow == 3
MaxExp == 1
MaxCalls == 3
MantissaBits == 3

----------------------------------------------------------------------------
(* Strings *)

Range(s) == {s[i] : i \in 1..Len(s)}

UpperCase == <<"A","B","C","D","E","F","G","H","I","J","K","L","M",
               "N","O","P","Q","R","S","T","U","V","W","X","Y","Z">>
LowerCase == <<"a","b","c","d","e","f","g","h","i","j","k","l","m",
               "n","o","p","q","r","s","t","u","v","w","x","y","z">>

\* str.lower() on one character
lower_char(c) ==
    IF \E i \in 1..Len(UpperCase) : UpperCase[i] = c
    THEN LowerCase[CHOOSE i \in 1..Len(UpperCase) : UpperCase[i] = c]
    ELSE c

\* str.lower()
lower(s) == [i \in 1..Len(s) |-> lower_char(s[i])]

\* str.strip(): leading and trailing blanks removed
RECURSIVE lstrip(_)
lstrip(s) == IF s # <<>> /\ Head(s) = " " THEN lstrip(Tail(s)) ELSE s

RECURSIVE rstrip(_)
rstrip(s) ==
    IF s # <<>> /\ s[Len(s)] = " " THEN rstrip(SubSeq(s, 1, Len(s) - 1)) ELSE s

strip(s) == rstrip(lstrip(s))

\* str.startswith(prefix)
startswith(s, p) == Len(p) <= Len(s) /\ SubSeq(s, 1, Len(p)) = p

\* str.startswith(tuple of prefixes)
startswith_any(s, ps) == \E p \in ps : startswith(s, p)

S_date == <<"d","a","t","e">>
S_Date == <<"D","a","t","e">>
S_open == <<"o","p","e","n">>
S_Open == <<"O","p","e","n">>
S_o == <<"o">>
S_high == <<"h","i","g","h">>
S_High == <<"H","i","g","h">>
S_h == <<"h">>
S_low == <<"l","o","w">>
S_Low == <<"L","o","w">>
S_l == <<"l">>
S_close == <<"c","l","o","s","e">>
S_Close == <<"C","l","o","s","e">>
S_c == <<"c">>
S_last == <<"l","a","s","t">>
S_ts == <<"t","s">>
S_index == <<"i","n","d","e","x">>
S_level_0 == <<"l","e","v","e","l","_","0">>

----------------------------------------------------------------------------
(* Cells *)

Cell(k, v) == [k |-> k, v |-> v]

NaN == Cell("nan", 0)
NaT == Cell("nat", 0)
Junk == Cell("junk", 0)

\* Series.notna() on one value
notna(c) == c.k \notin {"nan", "nat"}

\* pd.to_numeric(value, errors="coerce")
to_numeric(c) ==
    CASE c.k = "num" -> c
      [] c.k = "numstr" -> Cell("num", c.v)
      [] OTHER -> NaN

\* pd.to_datetime(value, errors="coerce"); a number is an offset from the epoch
to_datetime(c) ==
    CASE c.k = "ts" -> c
      [] c.k = "iso" -> Cell("ts", c.v)
      [] c.k = "num" -> Cell("ts", c.v)
      [] OTHER -> NaT

\* a >= b on two values of a numeric column: False whenever one is NaN
ge(a, b) == a.k = "num" /\ b.k = "num" /\ a.v >= b.v

\* a <= b on two values of a numeric column
le(a, b) == a.k = "num" /\ b.k = "num" /\ a.v <= b.v

----------------------------------------------------------------------------
(* Tables and outcomes *)

RangeIndex == [kind |-> "range", named |-> FALSE, name |-> <<>>]
DatetimeIndex(named, name) == [kind |-> "datetime", named |-> named, name |-> name]

Table(columns, index, rows) == [columns |-> columns, index |-> index, rows |-> rows]

\* An outcome: status "none" before the call, "error" for a raised exception (exc
\* its class, msg the raise statement it comes from), "ok" for a returned frame.
\* lowered and columns are df_work.columns after STEP 2 and after STEP 4 (empty
\* when the call ended before); rows are the rows of the returned frame.
NoResult ==
    [status |-> "none", exc |-> "", msg |-> "", lowered |-> <<>>, columns |-> <<>>,
     rows |-> <<>>]

Raise(exc, msg, lowered, columns) ==
    [status |-> "error", exc |-> exc, msg |-> msg, lowered |-> lowered,
     columns |-> columns, rows |-> <<>>]

Return(lowered, columns, rows) ==
    [status |-> "ok", exc |-> "", msg |-> "", lowered |-> lowered, columns |-> columns,
     rows |-> rows]

\* variant: no copy is made, the working frame is the caller's object
copy_shared(df) == "df"

\* df.copy(): the object that holds the working frame, "work" for a new object
\* that shares nothing with df, "df" for the caller's own object
copy(df) == "work"

\* the application's run before the quotes are fetched: the outcome of the
\* fetch, how far each calculation is ("idle", "copied" once it has validated
\* and copied its argument, "done"), the copies they work on and the outcomes
NoPipeline ==
    [fetched |-> NoResult,
     pivots_at |-> "idle", pivots_df |-> <<>>, pivots |-> NoResult,
     hv_at |-> "idle", hv_df |-> <<>>, hv |-> NoResult,
     processed |-> NoResult]

\* no APIService object
NoService == [session |-> "absent"]

\* variant: the rows kept come out last first
subsequence_reversed(s, keep) ==
    LET nth(k) == CHOOSE i \in keep : Cardinality({j \in keep : j > i}) = k - 1
    IN  [k \in 1..Cardinality(keep) |-> s[nth(k)]]

\* boolean indexing and dropna: the sequence of the elements of s at the
\* positions in keep, in their order
subsequence(s, keep) ==
    LET nth(k) == CHOOSE i \in keep : Cardinality({j \in keep : j < i}) = k - 1
    IN  [k \in 1..Cardinality(keep) |-> s[nth(k)]]

\* the cells of every row, without the index
cells_of(rows) == [i \in 1..Len(rows) |-> rows[i].cells]

----------------------------------------------------------------------------
(* src/data_processor.py *)

\* variant: only the date column is validated
ensure_columns_date_only(columns, required) ==
    {c \in required \cap {S_date} : c \notin Range(columns)}

\* the columns named in required that the frame lacks; non-empty raises ValueError
ensure_columns(columns, required) == {c \in required : c \notin Range(columns)}

\* DataFrame.reset_index(): the label of the column the index is moved to
reset_index_label(df) ==
    IF df.index.named THEN df.index.name
    ELSE IF S_index \in Range(df.columns) THEN S_level_0 ELSE S_index

\* DataFrame.reset_index(): the index becomes the first column
reset_index(df) ==
    Table(<<reset_index_label(df)>> \o df.columns,
          RangeIndex,
          [i \in 1..Len(df.rows) |->
              [idx |-> Junk, cells |-> <<df.rows[i].idx>> \o df.rows[i].cells]])

\* DataFrame.rename(columns=mapping); mapping is a function on some labels
rename(columns, mapping) ==
    [i \in 1..Len(columns) |->
        IF columns[i] \in DOMAIN mapping THEN mapping[columns[i]] ELSE columns[i]]

\* STEP 1: "date" not in df_work.columns
has_date_column(columns) == S_date \in Range(columns)

\* STEP 1: reset_index().rename(columns={df_work.index.name: "date"}); the key
\* None of an unnamed index matches no column
index_to_date(df) ==
    LET moved == reset_index(df)
    IN  IF df.index.named
        THEN Table(rename(moved.columns, df.index.name :> S_date), moved.index, moved.rows)
        ELSE moved

\* STEP 2: [col.lower().strip() for col in df_work.columns]
lower_columns(columns) == [i \in 1..Len(columns) |-> strip(lower(columns[i]))]

\* STEP 4: one iteration of the loop over the columns
ohlc_map_step(ohlc_map, col) ==
    LET col_lower == lower(col)
        values == {ohlc_map[k] : k \in DOMAIN ohlc_map}
    IN  IF startswith_any(col_lower, {S_open, S_o}) /\ S_open \notin values
        THEN (col :> S_open) @@ ohlc_map
        ELSE IF startswith_any(col_lower, {S_high, S_h}) /\ S_high \notin values
        THEN (col :> S_high) @@ ohlc_map
        ELSE IF startswith_any(col_lower, {S_low, S_l}) /\ S_low \notin values
        THEN (col :> S_low) @@ ohlc_map
        ELSE IF startswith_any(col_lower, {S_close, S_c, S_last}) /\ S_close \notin values
        THEN (col :> S_close) @@ ohlc_map
        ELSE ohlc_map

\* STEP 4: the loop, from the columns still to visit and the dict so far
RECURSIVE build_ohlc_map(_, _)
build_ohlc_map(columns, ohlc_map) ==
    IF columns = <<>> THEN ohlc_map
    ELSE build_ohlc_map(Tail(columns), ohlc_map_step(ohlc_map, Head(columns)))

\* STEP 4: the columns after df_work.rename(columns=ohlc_map)
resolve_columns(columns) == rename(columns, build_ohlc_map(columns, <<>>))

required_ohlc == {S_open, S_high, S_low, S_close}

\* how many columns carry the label
label_count(columns, label) == Cardinality({i \in 1..Len(columns) : columns[i] = label})

\* STEP 6: the row after to_datetime on date and to_numeric on the OHLC columns
convert_row(columns, cells) ==
    [i \in 1..Len(cells) |->
        IF columns[i] = S_date THEN to_datetime(cells[i])
        ELSE IF columns[i] \in required_ohlc THEN to_numeric(cells[i])
        ELSE cells[i]]

\* the value of the row in the (single) column with the label
at(columns, cells, label) == cells[CHOOSE i \in 1..Len(columns) : columns[i] = label]

\* variant: the mask without (low <= close)
valid_mask_no_low_close(columns, cells) ==
    LET date == at(columns, cells, S_date)
        open == at(columns, cells, S_open)
        high == at(columns, cells, S_high)
        low == at(columns, cells, S_low)
        close == at(columns, cells, S_close)
    IN  /\ notna(date)
        /\ \A c \in {open, high, low, close} : notna(c)
        /\ ge(high, low)
        /\ ge(high, open)
        /\ ge(high, close)
        /\ le(low, open)

\* variant: the mask without (high >= open)
valid_mask_no_high_open(columns, cells) ==
    LET date == at(columns, cells, S_date)
        open == at(columns, cells, S_open)
        high == at(columns, cells, S_high)
        low == at(columns, cells, S_low)
        close == at(columns, cells, S_close)
    IN  /\ notna(date)
        /\ \A c \in {open, high, low, close} : notna(c)
        /\ ge(high, low)
        /\ ge(high, close)
        /\ le(low, open)
        /\ le(low, close)

\* STEP 7: valid_mask for one converted row.  df_work[required_ohlc] is read as
\* the selection of the four columns (pandas before 2.0 takes a set of labels as
\* a list; from 2.0 on it rejects the set with TypeError and no call succeeds)
valid_mask(columns, cells) ==
    LET date == at(columns, cells, S_date)
        open == at(columns, cells, S_open)
        high == at(columns, cells, S_high)
        low == at(columns, cells, S_low)
        close == at(columns, cells, S_close)
    IN  /\ notna(date)
        /\ \A c \in {open, high, low, close} : notna(c)
        /\ ge(high, low)
        /\ ge(high, open)
        /\ ge(high, close)
        /\ le(low, open)
        /\ le(low, close)

\* df_work[valid_mask]: the rows the mask keeps, in order
RECURSIVE select_rows(_, _)
select_rows(columns, rows) ==
    IF rows = <<>> THEN <<>>
    ELSE IF valid_mask(columns, Head(rows))
         THEN <<Head(rows)>> \o select_rows(columns, Tail(rows))
         ELSE select_rows(columns, Tail(rows))

\* variant: the rows are returned in the order they came
sort_values_unsorted(columns, rows) == {rows}

\* variant: ascending by date, keeping only the first row of each date
sort_values_drop_duplicates(columns, rows) ==
    LET key(r) == at(columns, r, S_date).v
        first == {i \in 1..Len(rows) : \A j \in 1..i - 1 : key(rows[j]) # key(rows[i])}
        n == Cardinality(first)
    IN  {[i \in 1..n |-> rows[p[i]]] : p \in
            {q \in [1..n -> first] : \A i \in 1..n - 1 : key(rows[q[i]]) < key(rows[q[i + 1]])}}

\* STEP 8: sort_values("date"): every arrangement of the rows that is ascending
\* by date; the default sort is not stable, rows of equal date come in any order
sort_values(columns, rows) ==
    LET n == Len(rows)
        key(r) == at(columns, r, S_date).v
        perms == {p \in [1..n -> 1..n] : \A i, j \in 1..n : i # j => p[i] # p[j]}
    IN  {[i \in 1..n |-> rows[p[i]]] : p \in
            {q \in perms : \A i \in 1..n - 1 : key(rows[q[i]]) <= key(rows[q[i + 1]])}}

\* variant: the frame is returned without the emptiness check
finalize_unchecked(lowered, columns, rows) == Return(lowered, columns, rows)

\* STEP 8: result.empty raises, otherwise the sorted frame is returned
finalize(lowered, columns, rows) ==
    IF rows = <<>>
    THEN Raise("ValueError", "No valid OHLC data after cleaning", lowered, columns)
    ELSE Return(lowered, columns, rows)

\* STEPS 6-8: the possible outcomes.  df_work["date"] of a missing label is a
\* KeyError; of a label carried by several columns it is a frame, which
\* to_datetime rejects with ValueError and to_numeric with TypeError
clean_and_sort(lowered, columns, rows) ==
    IF \E c \in {S_date} \cup required_ohlc : label_count(columns, c) = 0
    THEN {Raise("KeyError", "label not in columns", lowered, columns)}
    ELSE IF label_count(columns, S_date) > 1
    THEN {Raise("ValueError", "cannot assemble with duplicate keys", lowered, columns)}
    ELSE IF \E c \in required_ohlc : label_count(columns, c) > 1
    THEN {Raise("TypeError", "arg must be a list, tuple, 1-d array, or Series",
                lowered, columns)}
    ELSE LET converted == [i \in 1..Len(rows) |-> convert_row(columns, rows[i])]
             cleaned == select_rows(columns, converted)
         IN  {finalize(lowered, columns, result) : result \in sort_values(columns, cleaned)}

\* prepare_chart_data(df): the set of outcomes the call can have
prepare_chart_data(df) ==
    IF ~has_date_column(df.columns) /\ df.index.kind # "datetime"
    THEN {Raise("ValueError", "DataFrame must have 'date' column or DatetimeIndex",
                <<>>, <<>>)}
    ELSE IF ~has_date_column(df.columns) /\ reset_index_label(df) \in Range(df.columns)
    THEN {Raise("ValueError", "cannot insert, already exists", <<>>, <<>>)}
    ELSE LET df_work == IF has_date_column(df.columns) THEN df ELSE index_to_date(df)
             lowered == lower_columns(df_work.columns)
             columns == resolve_columns(lowered)
         IN  IF ~has_date_column(lowered)
             THEN {Raise("ValueError", "No identifiable date column found", lowered, <<>>)}
             ELSE IF ensure_columns(columns, {S_date} \cup required_ohlc) # {}
             THEN {Raise("ValueError", "DataFrame missing required columns",
                         lowered, columns)}
             ELSE clean_and_sort(lowered, columns, cells_of(df_work.rows))

----------------------------------------------------------------------------
(* src/data_processor.py: calculate_historical_volatility.  Prices are 0, -1  *)
(* and powers of two, so that a log return is a whole multiple of ln 2: the   *)
(* cells of the log-return column count in units of ln 2, those of hv too,    *)
(* rounded down.                                                              *)

PosInf == Cell("inf", 1)
NegInf == Cell("inf", 0 - 1)

S_hv == <<"h","v">>
S_log_ret == <<"_","l","o","g","_","r","e","t">>

\* window_size < 2 is rejected
MIN_WINDOW == 2
\* rolling(..., min_periods=2)
MIN_PERIODS == 2
\* np.sqrt(252)
TRADING_DAYS == 252
\* ... * 100.0, a percentage
PERCENT == 100

\* log2 of a power of two
ilog2(v) == CHOOSE e \in 0..30 : 2^e = v

abs(v) == IF v < 0 THEN 0 - v ELSE v

\* np.log(a / b) on two values of a numeric column: a zero divisor gives an
\* infinite or undefined ratio without an exception, log(0) is -inf, the log
\* of a negative ratio is NaN
log_ratio(a, b) ==
    IF a.k # "num" \/ b.k # "num" THEN NaN
    ELSE IF b.v = 0 THEN (IF a.v > 0 THEN PosInf ELSE NaN)
    ELSE IF a.v = 0 THEN NegInf
    ELSE IF (a.v < 0) # (b.v < 0) THEN NaN
    ELSE Cell("num", ilog2(abs(a.v)) - ilog2(abs(b.v)))

\* variant: no shift, the value of the row itself
shift_none(series, i) == series[i]

\* Series.shift(1): the value of the previous row, NaN for the first row
shift(series, i) == IF i = 1 THEN NaN ELSE series[i - 1]

\* the largest r with r * r <= x, for lo * lo <= x < hi * hi
RECURSIVE isqrt_between(_, _, _)
isqrt_between(x, lo, hi) ==
    IF hi - lo <= 1 THEN lo
    ELSE LET mid == (lo + hi) \div 2
         IN  IF mid * mid <= x THEN isqrt_between(x, mid, hi)
             ELSE isqrt_between(x, lo, mid)

\* floor of the square root, for x below 2^31
isqrt(x) == isqrt_between(x, 0, IF x < 46341 THEN x + 1 ELSE 46341)

\* the sum of series[i] .v over the positions in I
RECURSIVE sum_over(_, _)
sum_over(series, I) ==
    IF I = {} THEN 0
    ELSE LET i == CHOOSE j \in I : TRUE
         IN  series[i].v + sum_over(series, I \ {i})

\* the sum of the squares of series[i].v over the positions in I
RECURSIVE sum_squares_over(_, _)
sum_squares_over(series, I) ==
    IF I = {} THEN 0
    ELSE LET i == CHOOSE j \in I : TRUE
         IN  series[i].v * series[i].v + sum_squares_over(series, I \ {i})

\* the observations of the window ending at row i: rolling() reads an infinite
\* value as a missing one
window_observations(series, i, window) ==
    {j \in 1..i : j > i - window /\ series[j].k = "num"}

\* variant: rolling(window).mean() * sqrt(252) * 100
annualized_rolling_mean(series, i, window) ==
    LET obs == window_observations(series, i, window)
        n == Cardinality(obs)
    IN  IF n < MIN_PERIODS THEN NaN
        ELSE LET mean_scaled == (sum_over(series, obs) * PERCENT * isqrt(TRADING_DAYS * 10000))
                 magnitude == abs(mean_scaled) \div (n * 100)
             IN  Cell("num", IF mean_scaled < 0 THEN 0 - magnitude ELSE magnitude)

\* variant: rolling(window).std() with the default min_periods, the window size
annualized_rolling_std_full_window(series, i, window) ==
    LET obs == window_observations(series, i, window)
        n == Cardinality(obs)
        n_ssd == n * sum_squares_over(series, obs) - sum_over(series, obs) * sum_over(series, obs)
    IN  IF n < window THEN NaN
        ELSE Cell("num", isqrt((TRADING_DAYS * PERCENT * PERCENT * n_ssd) \div (n * (n - 1))))

\* rolling(window, min_periods=2).std() * sqrt(252) * 100 at row i: the sample
\* standard deviation (N - 1 denominator) of the observations, NaN below two
annualized_rolling_std(series, i, window) ==
    LET obs == window_observations(series, i, window)
        n == Cardinality(obs)
        \* n times the sum of the squared deviations from the mean
        n_ssd == n * sum_squares_over(series, obs) - sum_over(series, obs) * sum_over(series, obs)
    IN  IF n < MIN_PERIODS THEN NaN
        ELSE Cell("num", isqrt((TRADING_DAYS * PERCENT * PERCENT * n_ssd) \div (n * (n - 1))))

\* variant: windows of one row are let through
window_size_accepted_from_one(window_size) == window_size >= 1

\* line 92: not (window_size < 2); window_size is an int in every call modelled
window_size_accepted(window_size) == window_size >= MIN_WINDOW

\* the column of the label, one cell per row
column_of(df, label) ==
    [i \in 1..Len(df.rows) |-> at(df.columns, df.rows[i].cells, label)]

\* lines 95-114: df_work with the price column numeric and the two new columns
volatility_work(df, window_size, price_col) ==
    LET price == [i \in 1..Len(df.rows) |-> to_numeric(column_of(df, price_col)[i])]
        log_ret == [i \in 1..Len(df.rows) |-> log_ratio(price[i], shift(price, i))]
        hv == [i \in 1..Len(df.rows) |-> annualized_rolling_std(log_ret, i, window_size)]
    IN  Table(df.columns \o <<price_col \o S_log_ret, S_hv>>, df.index,
              [i \in 1..Len(df.rows) |->
                  [idx |-> df.rows[i].idx,
                   cells |-> [j \in 1..Len(df.columns) |->
                                 IF df.columns[j] = price_col THEN price[i]
                                 ELSE df.rows[i].cells[j]] \o <<log_ret[i], hv[i]>>]])

\* lines 116-119: dropna(subset=[log_ret_col, "hv"]) keeps the order of the rows
volatility_frame(df, window_size, price_col) ==
    LET work == volatility_work(df, window_size, price_col)
        kept == {i \in 1..Len(work.rows) :
                    /\ notna(at(work.columns, work.rows[i].cells, price_col \o S_log_ret))
                    /\ notna(at(work.columns, work.rows[i].cells, S_hv))}
    IN  Return(<<>>, work.columns, subsequence(work.rows, kept))

\* calculate_historical_volatility(df, window_size, price_col)
calculate_historical_volatility(df, window_size, price_col) ==
    IF price_col \notin Range(df.columns)
    THEN Raise("ValueError", "Price column not found", <<>>, <<>>)
    ELSE IF ~window_size_accepted(window_size)
    THEN Raise("ValueError", "window_size must be integer >= 2", <<>>, <<>>)
    ELSE IF window_size < MIN_PERIODS
    THEN Raise("ValueError", "min_periods must be <= window", <<>>, <<>>)
    ELSE volatility_frame(df, window_size, price_col)

\* the caller's frame after calculate_historical_volatility: lines 95 and 98
\* (_to_numeric_columns copies again) keep the column assignments off it
volatility_caller_frame(df, window_size, price_col) ==
    IF /\ copy(df) = "df"
       /\ calculate_historical_volatility(df, window_size, price_col).status = "ok"
    THEN volatility_work(df, window_size, price_col)
    ELSE df

----------------------------------------------------------------------------
(* src/data_processor.py: calculate_pivot_points.  A level is a whole number  *)
(* of thirds: the cell Third(n) holds the value n / 3, so that the division   *)
(* by 3.0 is exact.                                                           *)

S_pivot == <<"p","i","v","o","t">>
S_r1 == <<"r","1">>
S_r2 == <<"r","2">>
S_r3 == <<"r","3">>
S_s1 == <<"s","1">>
S_s2 == <<"s","2">>
S_s3 == <<"s","3">>

Third(n) == Cell("third", n)

\* variant: only close is required and converted
pivot_required_close_only == {S_close}

\* required = {"high", "low", "close"}
pivot_required == {S_high, S_low, S_close}

\* (prev_high + prev_low + prev_close) / 3.0
pivot_level(h, l, c) == Third(h.v + l.v + c.v)
\* 2 * pivot - prev_low
r1_level(pivot, h, l) == Third(2 * pivot.v - 3 * l.v)
\* variant: pivot + prev_high
r2_level_plus_high(pivot, h, l) == Third(pivot.v + 3 * h.v)
\* pivot + (prev_high - prev_low)
r2_level(pivot, h, l) == Third(pivot.v + 3 * (h.v - l.v))
\* prev_high + 2 * (pivot - prev_low)
r3_level(pivot, h, l) == Third(3 * h.v + 2 * (pivot.v - 3 * l.v))
\* 2 * pivot - prev_high
s1_level(pivot, h, l) == Third(2 * pivot.v - 3 * h.v)
\* pivot - (prev_high - prev_low)
s2_level(pivot, h, l) == Third(pivot.v - 3 * (h.v - l.v))
\* prev_low - 2 * (prev_high - pivot)
s3_level(pivot, h, l) == Third(3 * l.v - 2 * (3 * h.v - pivot.v))

\* lines 156-166 for one row: pivot, r1, r2, r3, s1, s2, s3 from the previous
\* values; NaN as soon as one of them is NaN
pivot_levels(prev_high, prev_low, prev_close) ==
    IF \E c \in {prev_high, prev_low, prev_close} : c.k # "num"
    THEN [j \in 1..7 |-> NaN]
    ELSE LET pivot == pivot_level(prev_high, prev_low, prev_close)
         IN  <<pivot,
               r1_level(pivot, prev_high, prev_low),
               r2_level(pivot, prev_high, prev_low),
               r3_level(pivot, prev_high, prev_low),
               s1_level(pivot, prev_high, prev_low),
               s2_level(pivot, prev_high, prev_low),
               s3_level(pivot, prev_high, prev_low)>>

pivot_columns == <<S_pivot, S_r1, S_r2, S_r3, S_s1, S_s2, S_s3>>

\* variant: a bar whose high is below its low is dropped too
pivot_row_kept_consistent(columns, cells) ==
    /\ notna(at(columns, cells, S_pivot))
    /\ ge(at(columns, cells, S_high), at(columns, cells, S_low))

\* dropna(subset=["pivot"])
pivot_row_kept(columns, cells) == notna(at(columns, cells, S_pivot))

\* lines 145-166: df_work with high, low, close numeric and the seven columns
pivot_work(df) ==
    LET numeric(label) == [i \in 1..Len(df.rows) |-> to_numeric(column_of(df, label)[i])]
        high == numeric(S_high)
        low == numeric(S_low)
        close == numeric(S_close)
        converted(i, j) ==
            IF df.columns[j] \in pivot_required
            THEN to_numeric(df.rows[i].cells[j])
            ELSE df.rows[i].cells[j]
    IN  Table(df.columns \o pivot_columns, df.index,
              [i \in 1..Len(df.rows) |->
                  [idx |-> df.rows[i].idx,
                   cells |-> [j \in 1..Len(df.columns) |-> converted(i, j)]
                             \o pivot_levels(shift(high, i), shift(low, i), shift(close, i))]])

\* lines 168-171: the rows of df_work that dropna keeps, in their order
pivot_frame_of(work) ==
    LET kept == {i \in 1..Len(work.rows) : pivot_row_kept(work.columns, work.rows[i].cells)}
    IN  Return(<<>>, work.columns, subsequence(work.rows, kept))

pivot_frame(df) == pivot_frame_of(pivot_work(df))

\* calculate_pivot_points(df)
calculate_pivot_points(df) ==
    IF ensure_columns(df.columns, pivot_required) # {}
    THEN Raise("ValueError", "DataFrame missing required columns", <<>>, <<>>)
    ELSE IF ~({S_high, S_low, S_close} \subseteq Range(df.columns))
    THEN Raise("KeyError", "high", <<>>, <<>>)
    ELSE pivot_frame(df)

----------------------------------------------------------------------------
(* calculate_pivot_points in binary floating point: a number is a whole count *)
(* of units with at most MantissaBits significant bits, and every operation   *)
(* of lines 156-166 rounds its exact result to the nearest such number, ties  *)
(* to the even mantissa, as float64 does with 53 bits.                        *)

\* the exponent of num / den: the least s with num / den below
\* 2^MantissaBits * 2^s (num >= 0, den > 0)
exponent_of(num, den) ==
    CHOOSE s \in 0..(MantissaBits + 2) :
        /\ num < (2^MantissaBits) * den * (2^s)
        /\ s > 0 => num >= (2^MantissaBits) * den * (2^(s - 1))

\* num / den >= 0 rounded to MantissaBits significant bits
round_magnitude(num, den) ==
    LET s == exponent_of(num, den)
        d == den * (2^s)
        m == num \div d
        rem == num - m * d
        up == IF 2 * rem > d \/ (2 * rem = d /\ m % 2 = 1) THEN 1 ELSE 0
    IN  (m + up) * (2^s)

\* num / den rounded to the nearest number of the format
round_to_nearest(num, den) ==
    IF num >= 0 THEN round_magnitude(num, den) ELSE 0 - round_magnitude(0 - num, den)

float_add(a, b) == round_to_nearest(a + b, 1)
float_sub(a, b) == round_to_nearest(a - b, 1)
float_twice(a) == round_to_nearest(2 * a, 1)
float_third(a) == round_to_nearest(a, 3)

\* (prev_high + prev_low + prev_close) / 3.0
float_pivot_level(h, l, c) == float_third(float_add(float_add(h, l), c))
\* variant: 2 * pivot - prev_high
float_r1_level_from_high(pivot, h, l) == float_sub(float_twice(pivot), h)
\* 2 * pivot - prev_low
float_r1_level(pivot, h, l) == float_sub(float_twice(pivot), l)
\* pivot + (prev_high - prev_low)
float_r2_level(pivot, h, l) == float_add(pivot, float_sub(h, l))
\* prev_high + 2 * (pivot - prev_low)
float_r3_level(pivot, h, l) == float_add(h, float_twice(float_sub(pivot, l)))
\* 2 * pivot - prev_high
float_s1_level(pivot, h, l) == float_sub(float_twice(pivot), h)
\* pivot - (prev_high - prev_low)
float_s2_level(pivot, h, l) == float_sub(pivot, float_sub(h, l))
\* prev_low - 2 * (prev_high - pivot)
float_s3_level(pivot, h, l) == float_sub(l, float_twice(float_sub(h, pivot)))

\* lines 156-166 for one row, every operation rounded
float_pivot_levels(prev_high, prev_low, prev_close) ==
    IF \E c \in {prev_high, prev_low, prev_close} : c.k # "num"
    THEN [j \in 1..7 |-> NaN]
    ELSE LET h == prev_high.v
             l == prev_low.v
             pivot == float_pivot_level(h, l, prev_close.v)
         IN  <<Cell("num", pivot),
               Cell("num", float_r1_level(pivot, h, l)),
               Cell("num", float_r2_level(pivot, h, l)),
               Cell("num", float_r3_level(pivot, h, l)),
               Cell("num", float_s1_level(pivot, h, l)),
               Cell("num", float_s2_level(pivot, h, l)),
               Cell("num", float_s3_level(pivot, h, l))>>

\* lines 145-166: df_work, the levels of every row rounded
float_pivot_work(df) ==
    LET numeric(label) == [i \in 1..Len(df.rows) |-> to_numeric(column_of(df, label)[i])]
        high == numeric(S_high)
        low == numeric(S_low)
        close == numeric(S_close)
        converted(i, j) ==
            IF df.columns[j] \in pivot_required
            THEN to_numeric(df.rows[i].cells[j])
            ELSE df.rows[i].cells[j]
    IN  Table(df.columns \o pivot_columns, df.index,
              [i \in 1..Len(df.rows) |->
                  [idx |-> df.rows[i].idx,
                   cells |-> [j \in 1..Len(df.columns) |-> converted(i, j)]
                             \o float_pivot_levels(shift(high, i), shift(low, i), shift(close, i))]])

\* calculate_pivot_points(df) in floating point
float_calculate_pivot_points(df) ==
    IF ensure_columns(df.columns, pivot_required) # {}
    THEN Raise("ValueError", "DataFrame missing required columns", <<>>, <<>>)
    ELSE IF ~({S_high, S_low, S_close} \subseteq Range(df.columns))
    THEN Raise("KeyError", "high", <<>>, <<>>)
    ELSE pivot_frame_of(float_pivot_work(df))

\* the caller's frame after calculate_pivot_points: lines 145 and 148 keep the
\* column assignments off it
pivot_caller_frame(df) ==
    IF copy(df) = "df" /\ calculate_pivot_points(df).status = "ok"
    THEN pivot_work(df)
    ELSE df

\* the caller's frame after prepare_chart_data: line 196 keeps the assignment
\* to df_work.columns at line 207 off it; reset_index (line 202) and rename
\* (line 226) return new objects in any case
prepare_caller_frame(df) ==
    IF copy(df) = "df" /\ has_date_column(df.columns)
    THEN Table(lower_columns(df.columns), df.index, df.rows)
    ELSE df

----------------------------------------------------------------------------
(* src/api_service.py: get_historical_data, from the payload's quotes on.  The *)
(* quotes are the table DataFrame(quotes): a default index and one column per  *)
(* key of the records.                                                         *)

\* the name the loop of lines 257-266 maps a (lower-cased) column to, the
\* column itself when no branch takes it; no branch looks at what is mapped
\* already
api_ohlc_name(col) ==
    IF startswith_any(col, {S_open, S_o}) THEN S_open
    ELSE IF startswith_any(col, {S_high, S_h}) THEN S_high
    ELSE IF startswith_any(col, {S_low, S_l}) THEN S_low
    ELSE IF startswith_any(col, {S_close, S_c, S_last}) THEN S_close
    ELSE col

\* lines 254-268: [col.lower() for col in df.columns], then rename
api_columns(columns) == [i \in 1..Len(columns) |-> api_ohlc_name(lower(columns[i]))]

\* the positions of the columns other than date
api_value_positions(columns) == {j \in 1..Len(columns) : columns[j] # S_date}

\* line 281: dropna(subset=numeric_cols + ['date'])
api_row_kept(columns, cells) ==
    \A c \in required_ohlc \cup {S_date} : notna(at(columns, cells, c))

\* lines 283-286: set_index('date').sort_index(): the series that can come out
\* of the cleaned rows, rows of equal date in any order
api_series(columns, rows) ==
    {[status |-> "ok", exc |-> "", msg |-> "", lowered |-> <<>>,
      columns |-> subsequence(columns, api_value_positions(columns)),
      rows |-> [i \in 1..Len(sorted) |->
                   [idx |-> at(columns, sorted[i], S_date),
                    cells |-> subsequence(sorted[i], api_value_positions(columns))]]] :
        sorted \in sort_values(columns, rows)}

\* get_historical_data after the request: the set of outcomes for the quotes
\* (records with one key at most that lower-cases to date)
get_historical_data(quotes) ==
    IF quotes.rows = <<>>
    THEN {Raise("ValueError", "Empty or invalid quotes data", <<>>, <<>>)}
    ELSE IF S_date \notin Range(quotes.columns)
    THEN {Raise("ValueError", "Historical data missing 'date' column", <<>>, <<>>)}
    ELSE LET dated == [i \in 1..Len(quotes.rows) |->
                          [j \in 1..Len(quotes.columns) |->
                              IF quotes.columns[j] = S_date
                              THEN to_datetime(quotes.rows[i].cells[j])
                              ELSE quotes.rows[i].cells[j]]]
             with_date == subsequence(dated,
                              {i \in 1..Len(dated) : notna(at(quotes.columns, dated[i], S_date))})
             columns == api_columns(quotes.columns)
         IN  IF with_date = <<>>
             THEN {Raise("ValueError", "No valid historical data after date processing",
                         <<>>, <<>>)}
             ELSE IF ~(required_ohlc \subseteq Range(columns))
             THEN {Raise("ValueError", "Missing OHLC columns", <<>>, columns)}
             ELSE IF \E c \in required_ohlc : label_count(columns, c) > 1
             THEN {Raise("TypeError", "arg must be a list, tuple, 1-d array, or Series",
                         <<>>, columns)}
             ELSE LET converted == [i \in 1..Len(with_date) |->
                                       convert_row(columns, with_date[i])]
                      cleaned == subsequence(converted,
                                     {i \in 1..Len(converted) :
                                         api_row_kept(columns, converted[i])})
                  IN  api_series(columns, cleaned)

\* the frame an outcome of get_historical_data returns
fetched_frame(o) == Table(o.columns, DatetimeIndex(TRUE, S_date), o.rows)

----------------------------------------------------------------------------
(* src/api_service.py: the APIService object, its session and its requests.   *)
(* A response is [kind, quotes]: what the network and the server do with the   *)
(* request ("connection" and "timeout" failures, an "http_error" status, a     *)
(* body that is "bad_json", a JSON value that is "not_object", an "api_error"  *)
(* payload, or a payload that is "ok", "ok_missing" a key the caller needs,    *)
(* "ok_bad" in the values of those keys) and the quotes of an "ok" payload.    *)

\* the service after __init__: no session (0 stands for None), no session ever
\* created, no request issued; live are the sessions created and not closed,
\* gets counts the HTTP requests, last is the last call: its arguments, whether
\* it issued a request, the response, and its outcome
NewService ==
    [session |-> 0, live |-> {}, created |-> 0, gets |-> 0, calls |-> 0,
     last |-> [op |-> "none", args |-> <<>>, requested |-> FALSE, response |-> "none",
               status |-> "none", exc |-> "", msg |-> ""]]

\* the exception classes of requests.exceptions that derive from RequestException;
\* Response.json() raises requests' JSONDecodeError, which derives from it, in
\* requests 2.27 and later and a plain ValueError subclass before
RequestExceptions == {"HTTPError", "ConnectionError", "Timeout", "RequestsJSONDecodeError"}

\* variant: the session is created anew at every access
session_always_new(service) ==
    [service EXCEPT !.session = service.created + 1,
                    !.live = service.live \cup {service.created + 1},
                    !.created = service.created + 1]

\* the session property: the session is created at the first access
session(service) ==
    IF service.session = 0
    THEN [service EXCEPT !.session = service.created + 1,
                         !.live = service.live \cup {service.created + 1},
                         !.created = service.created + 1]
    ELSE service

\* close() of the service
service_close(service) ==
    IF service.session # 0
    THEN [service EXCEPT !.live = service.live \ {service.session}, !.session = 0]
    ELSE service

\* the try block of _make_request (lines 85-107): the exceptions it can end in,
\* "" when it returns the payload
make_request_try(response) ==
    CASE response.kind = "connection" -> {"ConnectionError"}
      [] response.kind = "timeout" -> {"Timeout"}
      [] response.kind = "http_error" -> {"HTTPError"}
      [] response.kind = "bad_json" -> {"RequestsJSONDecodeError", "JSONDecodeError"}
      [] response.kind = "not_object" -> {"ValueError"}
      [] response.kind = "api_error" -> {"ValueError"}
      [] OTHER -> {""}

\* the except clauses of _make_request (lines 109-114), in their order
make_request_except(exc) ==
    IF exc = "HTTPError" THEN [status |-> "error", exc |-> "RuntimeError", msg |-> "HTTP"]
    ELSE IF exc \in RequestExceptions
    THEN [status |-> "error", exc |-> "RuntimeError", msg |-> "Network error"]
    ELSE [status |-> "error", exc |-> "RuntimeError", msg |-> "Request failed"]

\* _make_request: the outcomes the response can lead to
make_request(response) ==
    {IF exc = "" THEN [status |-> "ok", exc |-> "", msg |-> ""]
     ELSE make_request_except(exc) : exc \in make_request_try(response)}

\* what a public method makes of its payload
ValueErrorOf(msg) == [status |-> "error", exc |-> "ValueError", msg |-> msg]
Returned == [status |-> "ok", exc |-> "", msg |-> ""]

\* an argument is [str, len, v]: whether it is a string, its length, the number
\* or day it stands for
Argument(str, len, v) == [str |-> str, len |-> len, v |-> v]

\* variant: any amount is accepted
convert_arguments_valid_any_amount(from_currency, to_currency, amount) ==
    /\ from_currency.str /\ from_currency.len = 3
    /\ to_currency.str /\ to_currency.len = 3

\* lines 167-172 of convert_currency
convert_arguments_valid(from_currency, to_currency, amount) ==
    /\ from_currency.str /\ from_currency.len = 3
    /\ to_currency.str /\ to_currency.len = 3
    /\ ~amount.str /\ amount.v > 0

\* the message of the first check of convert_currency that fails
convert_argument_error(from_currency, to_currency, amount) ==
    IF ~(from_currency.str /\ from_currency.len = 3) THEN "from_currency must be 3-letter code"
    ELSE IF ~(to_currency.str /\ to_currency.len = 3) THEN "to_currency must be 3-letter code"
    ELSE "amount must be positive number"

\* convert_currency after the request (lines 182-191)
convert_result(response) ==
    CASE response.kind = "ok" -> Returned
      [] response.kind = "ok_missing" -> ValueErrorOf("Missing conversion results in response")
      [] OTHER -> ValueErrorOf("Invalid conversion data")

\* lines 216-219 of get_historical_data
history_arguments_valid(currency_pair, start_date, end_date) ==
    /\ currency_pair.str /\ currency_pair.len >= 4
    /\ ~(start_date.v > end_date.v)

history_argument_error(currency_pair, start_date, end_date) ==
    IF ~(currency_pair.str /\ currency_pair.len >= 4)
    THEN "currency_pair must be valid pair (e.g., EURUSD)"
    ELSE "start_date must be before end_date"

\* get_historical_data after the request (lines 232-286): status, class and
\* message of the outcomes
history_result(response) ==
    CASE response.kind = "ok" ->
            {[status |-> o.status, exc |-> o.exc, msg |-> o.msg] :
                o \in get_historical_data(response.quotes)}
      [] response.kind = "ok_missing" ->
            {ValueErrorOf("Missing 'quotes' array in historical response")}
      [] OTHER -> {ValueErrorOf("Empty or invalid quotes data")}

\* get_currency_list after the request (lines 123-139)
currency_list_result(response) ==
    CASE response.kind = "ok" -> Returned
      [] response.kind = "ok_missing" ->
            ValueErrorOf("Missing 'available_currencies' in API response")
      [] OTHER -> ValueErrorOf("'available_currencies' must be a dictionary")

\* a public method called with valid arguments: the session is taken, the
\* request issued, and the outcome is that of _make_request when it raises,
\* that of the method's own checks otherwise
requested(service, op, args, response, requested_outcome, result) ==
    [session(service) EXCEPT
        !.gets = service.gets + 1,
        !.calls = service.calls + 1,
        !.last = [op |-> op, args |-> args, requested |-> TRUE, response |-> response.kind,
                  status |-> IF requested_outcome.status = "ok" THEN result.status
                             ELSE requested_outcome.status,
                  exc |-> IF requested_outcome.status = "ok" THEN result.exc
                          ELSE requested_outcome.exc,
                  msg |-> IF requested_outcome.status = "ok" THEN result.msg
                          ELSE requested_outcome.msg]]

\* a public method that rejects its arguments
rejected(service, op, args, msg) ==
    [service EXCEPT
        !.calls = service.calls + 1,
        !.last = [op |-> op, args |-> args, requested |-> FALSE, response |-> "none",
                  status |-> "error", exc |-> "ValueError", msg |-> msg]]

----------------------------------------------------------------------------
(* Input tables *)

Dates == 1..MaxDate
Prices == 1..MaxPrice

\* the sequences over S of length at most n
RECURSIVE SeqsUpTo(_, _)
SeqsUpTo(S, n) ==
    IF n = 0 THEN {<<>>}
    ELSE LET shorter == SeqsUpTo(S, n - 1)
         IN  shorter \cup {Append(s, x) : s \in {t \in shorter : Len(t) = n - 1}, x \in S}

FieldNames == {S_date, S_Date, S_Open, S_o, S_High, S_Low, S_last, S_Close}

\* the sequences over S of length at most n without a repeated element
RECURSIVE DistinctSeqsUpTo(_, _)
DistinctSeqsUpTo(S, n) ==
    IF n = 0 THEN {<<>>}
    ELSE LET shorter == DistinctSeqsUpTo(S, n - 1)
         IN  shorter \cup UNION {{Append(s, x) : x \in S \ Range(s)} :
                                    s \in {t \in shorter : Len(t) = n - 1}}

\* column lists without a repeated label, as a list of JSON records yields
Headers == DistinctSeqsUpTo(FieldNames, MaxCols)

Indexes ==
    {RangeIndex, DatetimeIndex(FALSE, <<>>)}
        \cup {DatetimeIndex(TRUE, n) : n \in {S_Date, S_ts}}

\* a row whose every cell is the number v, indexed by day v
UniformRow(n, v, index) ==
    [idx |-> IF index.kind = "datetime" THEN Cell("ts", v) ELSE Junk,
     cells |-> [i \in 1..n |-> Cell("num", v)]]

\* tables exploring the schema: any header and index, two rows out of order
SchemaTables ==
    {Table(h, ix, <<UniformRow(Len(h), 2, ix), UniformRow(Len(h), 1, ix)>>) :
        h \in Headers, ix \in Indexes}

DataHeader == <<S_date, S_Open, S_High, S_Low, S_Close>>

\* tables without a row: under the header of a feed and under every header of
\* one or two fields
EmptyTables ==
    {Table(h, RangeIndex, <<>>) : h \in {g \in Headers : Len(g) <= 2} \cup {DataHeader}}

DataRow(d, o, h, l, c) == [idx |-> Junk, cells |-> <<d, o, h, l, c>>]

\* every row of numbers
NumericRows ==
    {DataRow(Cell("ts", d), Cell("num", o), Cell("num", h), Cell("num", l), Cell("num", c)) :
        d \in Dates, o \in Prices, h \in Prices, l \in Prices, c \in Prices}

\* rows as a JSON feed delivers them: ISO dates and numeric strings
StringRows ==
    {DataRow(Cell("iso", d), Cell("numstr", v), Cell("numstr", h), Cell("numstr", v),
             Cell("numstr", v)) : d \in Dates, v \in Prices, h \in Prices}

\* rows with one field that does not parse
DefectRows ==
    {[idx |-> Junk,
      cells |-> [i \in 1..5 |-> IF i = bad THEN Junk
                                ELSE IF i = 1 THEN Cell("ts", 1) ELSE Cell("num", 1)]] :
        bad \in 1..5}

\* a few rows per day: two valid ones that differ, one inconsistent, one unparsed
ProfileRows ==
    UNION {{DataRow(Cell("ts", d), Cell("num", 1), Cell("num", 1), Cell("num", 1), Cell("num", 1)),
            DataRow(Cell("iso", d), Cell("numstr", 1), Cell("numstr", 2), Cell("numstr", 1),
                    Cell("numstr", 2)),
            DataRow(Cell("ts", d), Cell("num", 1), Cell("num", 1), Cell("num", 2), Cell("num", 1)),
            DataRow(Cell("ts", d), Cell("num", 1), Cell("num", 1), Cell("num", 1), Junk)} :
           d \in Dates}

\* tables exploring the rows under a fixed, resolvable header
DataTables ==
    {Table(DataHeader, RangeIndex, rows) :
        rows \in SeqsUpTo(NumericRows \cup StringRows \cup DefectRows, 1)
                 \cup SeqsUpTo(ProfileRows, MaxRows)}


\* a series as get_historical_data returns it: indexed by date, ascending; the
\* index value of the i-th row is day i
SeriesRows(columns, rows) ==
    Table(columns, DatetimeIndex(TRUE, S_date),
          [i \in 1..Len(rows) |-> [idx |-> Cell("ts", i), cells |-> rows[i]]])

\* the prices a log return is exact for
PowersOfTwo == {2^e : e \in 0..MaxExp}

VolPrices == {0 - 1, 0} \cup PowersOfTwo

VolCells == {Cell("num", v) : v \in VolPrices} \cup {Junk}

\* series of one price column, of up to MaxBars rows
VolTables ==
    {SeriesRows(<<S_close>>, [i \in 1..Len(closes) |-> <<closes[i]>>]) :
        closes \in SeqsUpTo(VolCells, MaxBars)}

VolParams == [window_size : 0..MaxWindow, price_col : {S_close, S_open}]

PivotCells == {Cell("num", v) : v \in PowersOfTwo} \cup {Cell("numstr", 1), Junk}

\* every bar of high, low, close
PivotBars == {<<h, l, c>> : h \in PivotCells, l \in PivotCells, c \in PivotCells}

\* a consistent bar, a bar whose high is below its low, a bar of strings
PivotProfileBars ==
    {<<Cell("num", 2), Cell("num", 1), Cell("num", 1)>>,
     <<Cell("num", 1), Cell("num", 2), Cell("num", 2)>>,
     <<Cell("numstr", 1), Cell("numstr", 1), Junk>>}

\* series of high, low, close of up to MaxBars bars: any first bar, then bars of
\* the profile
PivotDataTables ==
    {SeriesRows(<<S_high, S_low, S_close>>, bars) :
        bars \in {<<>>} \cup
                 {<<first>> \o rest : first \in PivotBars,
                                      rest \in SeqsUpTo(PivotProfileBars, MaxBars - 1)}}

\* series that lack one of the three fields, or have it under another name
PivotSchemaTables ==
    {SeriesRows(header, [i \in 1..n |-> [j \in 1..Len(header) |-> Cell("num", 1)]]) :
        header \in {<<S_low, S_close>>, <<S_high, S_close>>, <<S_high, S_low>>,
                    <<S_close>>, <<S_open>>, <<>>, <<S_High, S_low, S_close>>},
        n \in 0..MaxRows}

PivotTables == PivotDataTables \cup PivotSchemaTables

\* tables for the three transformations together: tables of a feed, with a date
\* column and capitalised names, and series indexed by date
FrameTables == DataTables \cup PivotTables

\* a window that is rejected and one that is accepted
FrameParams == {[window_size |-> w, price_col |-> S_close] : w \in {1, 2}}

\* the bars of a feed: two consistent ones, one with its high below its low,
\* one of numeric strings and one with a close that is no number
QuoteBars ==
    {<<Cell("num", 1), Cell("num", 2), Cell("num", 1), Cell("num", 2)>>,
     <<Cell("num", 2), Cell("num", 2), Cell("num", 1), Cell("num", 1)>>,
     <<Cell("num", 1), Cell("num", 1), Cell("num", 2), Cell("num", 1)>>,
     <<Cell("numstr", 1), Cell("numstr", 1), Cell("numstr", 1), Cell("numstr", 1)>>,
     <<Cell("num", 1), Cell("num", 1), Cell("num", 1), Junk>>}

\* the quotes of a payload: up to MaxBars records of date, open, high, low,
\* close, one per day, oldest first or newest first, dates as ISO strings
QuoteTables ==
    {Table(<<S_date, S_open, S_high, S_low, S_close>>, RangeIndex,
           [i \in 1..Len(bars) |->
               [idx |-> Junk,
                cells |-> <<Cell("iso", IF newest_first THEN Len(bars) + 1 - i ELSE i)>>
                          \o bars[i]]]) :
        bars \in SeqsUpTo(QuoteBars, MaxBars),
        newest_first \in BOOLEAN}

\* one-record payloads under other keys: capitalised names, abbreviations, no
\* date key, a key Date, no close
QuoteSchemaTables ==
    {Table(header, RangeIndex,
           <<[idx |-> Junk, cells |-> [j \in 1..Len(header) |-> Cell("num", 1)]]>>) :
        header \in {DataHeader,
                    <<S_date, S_o, S_h, S_l, S_c>>,
                    <<S_open, S_high, S_low, S_close>>,
                    <<S_Date, S_open, S_high, S_low, S_close>>,
                    <<S_date, S_open, S_high, S_low>>}}

\* the prices of the floating-point format that are whole units
FloatPrices == 1..(2^MantissaBits - 1)

\* series of two bars of high, low, close: any previous bar, then a bar of the
\* profile
FloatTables ==
    {SeriesRows(<<S_high, S_low, S_close>>,
                <<<<Cell("num", h), Cell("num", l), Cell("num", c)>>, own>>) :
        h \in FloatPrices, l \in FloatPrices, c \in FloatPrices,
        own \in PivotProfileBars}

\* currency codes and pairs: strings of 2 to 6 characters, and a value that is
\* no string
Codes == {Argument(TRUE, n, 0) : n \in 2..4} \cup {Argument(FALSE, 0, 0)}
Pairs == {Argument(TRUE, n, 0) : n \in {3, 4, 6}} \cup {Argument(FALSE, 0, 0)}

\* amounts: numbers around zero, and a string
Amounts == {Argument(FALSE, 0, v) : v \in -1..1} \cup {Argument(TRUE, 1, 0)}

\* start and end dates: two days
Days == {Argument(FALSE, 0, d) : d \in 1..2}

ResponseKinds ==
    {"connection", "timeout", "http_error", "bad_json", "not_object", "api_error",
     "ok", "ok_missing", "ok_bad"}

Responses ==
    {[kind |-> k, quotes |-> Table(<<>>, RangeIndex, <<>>)] : k \in ResponseKinds \ {"ok"}}
    \cup {[kind |-> "ok", quotes |-> q] : q \in QuoteSchemaTables}

\* what get_historical_data makes of each response, computed once
history_results == [response \in Responses |-> history_result(response)]

----------------------------------------------------------------------------
(* The state machine: a caller holds a raw table and calls the normalizer *)

\* window_size and price_col as calculate_historical_volatility defaults them
DefaultParams == [window_size |-> 20, price_col |-> S_close]

Init ==
    /\ \/ raw \in SchemaTables
       \/ raw \in EmptyTables
       \/ raw \in DataTables
    /\ params = DefaultParams
    /\ out = NoResult
    /\ again = NoResult
    /\ pipe = NoPipeline
    /\ svc = NoService

\* processed = prepare_chart_data(df)
PrepareChartData ==
    /\ out.status = "none"
    /\ out' \in prepare_chart_data(raw)
    /\ raw' = prepare_caller_frame(raw)
    /\ UNCHANGED <<params, again, pipe, svc>>

Next == PrepareChartData

Spec == Init /\ [][Next]_vars

\* the frame a successful call returned, as the argument of a further call
returned_frame(o) ==
    Table(o.columns, RangeIndex, [i \in 1..Len(o.rows) |-> [idx |-> Junk, cells |-> o.rows[i]]])

\* prepare_chart_data(prepare_chart_data(df))
PrepareChartDataAgain ==
    /\ out.status = "ok"
    /\ again.status = "none"
    /\ again' \in prepare_chart_data(returned_frame(out))
    /\ UNCHANGED <<raw, params, out, pipe, svc>>

InitVol ==
    /\ raw \in VolTables
    /\ params \in VolParams
    /\ out = NoResult
    /\ again = NoResult
    /\ pipe = NoPipeline
    /\ svc = NoService

\* hv = calculate_historical_volatility(df, window_size, price_col)
CalculateHistoricalVolatility ==
    /\ out.status = "none"
    /\ out' = calculate_historical_volatility(raw, params.window_size, params.price_col)
    /\ raw' = volatility_caller_frame(raw, params.window_size, params.price_col)
    /\ UNCHANGED <<params, again, pipe, svc>>

NextVol == CalculateHistoricalVolatility

SpecVol == InitVol /\ [][NextVol]_vars

InitPivot ==
    /\ raw \in PivotTables
    /\ params = DefaultParams
    /\ out = NoResult
    /\ again = NoResult
    /\ pipe = NoPipeline
    /\ svc = NoService

\* pivots = calculate_pivot_points(df)
CalculatePivotPoints ==
    /\ out.status = "none"
    /\ out' = calculate_pivot_points(raw)
    /\ raw' = pivot_caller_frame(raw)
    /\ UNCHANGED <<params, again, pipe, svc>>

NextPivot == CalculatePivotPoints

SpecPivot == InitPivot /\ [][NextPivot]_vars

InitFrame ==
    /\ raw \in FrameTables
    /\ params \in FrameParams
    /\ out = NoResult
    /\ again = NoResult
    /\ pipe = NoPipeline
    /\ svc = NoService

\* one call of one of the three transformations on the caller's table
NextFrame ==
    \/ PrepareChartData
    \/ CalculateHistoricalVolatility
    \/ CalculatePivotPoints

SpecFrame == InitFrame /\ [][NextFrame]_vars

\* the application's run (src/app.py, main): raw is the payload's quotes, then
\* the frame df that get_historical_data returned
InitPipeline ==
    /\ raw \in QuoteTables \cup QuoteSchemaTables
    /\ params = DefaultParams
    /\ out = NoResult
    /\ again = NoResult
    /\ pipe = NoPipeline
    /\ svc = NoService

\* df = cached_historical_data(api_service, pair_input, start, end)
Fetch ==
    /\ pipe.fetched.status = "none"
    /\ \E o \in get_historical_data(raw) :
          /\ pipe' = [pipe EXCEPT !.fetched = o]
          /\ raw' = IF o.status = "ok" THEN fetched_frame(o) ELSE raw
    /\ UNCHANGED <<params, out, again, svc>>

\* the fetch returned a frame and it is not empty (line 320)
Loaded == pipe.fetched.status = "ok" /\ pipe.fetched.rows # <<>>

\* calculate_pivot_points up to its copy of df (lines 142-145)
PivotsBegin ==
    /\ Loaded
    /\ pipe.pivots_at = "idle"
    /\ pipe' = IF calculate_pivot_points(raw).status = "error"
               THEN [pipe EXCEPT !.pivots_at = "done", !.pivots = calculate_pivot_points(raw)]
               ELSE [pipe EXCEPT !.pivots_at = "copied", !.pivots_df = raw]
    /\ UNCHANGED <<raw, params, out, again, svc>>

\* calculate_pivot_points from its copy on (lines 148-171)
PivotsEnd ==
    /\ pipe.pivots_at = "copied"
    /\ LET df_work == IF copy(raw) = "df" THEN raw ELSE pipe.pivots_df
       IN  /\ pipe' = [pipe EXCEPT !.pivots_at = "done", !.pivots_df = <<>>,
                                   !.pivots = calculate_pivot_points(df_work)]
           /\ raw' = pivot_caller_frame(raw)
    /\ UNCHANGED <<params, out, again, svc>>

\* calculate_historical_volatility up to its copy of df (lines 87-95)
VolatilityBegin ==
    /\ Loaded
    /\ pipe.hv_at = "idle"
    /\ LET hv == calculate_historical_volatility(raw, params.window_size, params.price_col)
       IN  pipe' = IF hv.status = "error"
                   THEN [pipe EXCEPT !.hv_at = "done", !.hv = hv]
                   ELSE [pipe EXCEPT !.hv_at = "copied", !.hv_df = raw]
    /\ UNCHANGED <<raw, params, out, again, svc>>

\* calculate_historical_volatility from its copy on (lines 98-119)
VolatilityEnd ==
    /\ pipe.hv_at = "copied"
    /\ LET df_work == IF copy(raw) = "df" THEN raw ELSE pipe.hv_df
       IN  /\ pipe' = [pipe EXCEPT !.hv_at = "done", !.hv_df = <<>>,
                                   !.hv = calculate_historical_volatility(
                                              df_work, params.window_size, params.price_col)]
           /\ raw' = volatility_caller_frame(raw, params.window_size, params.price_col)
    /\ UNCHANGED <<params, out, again, svc>>

\* processed = data_processor.prepare_chart_data(df)
PrepareChart ==
    /\ Loaded
    /\ pipe.processed.status = "none"
    /\ \E o \in prepare_chart_data(raw) : pipe' = [pipe EXCEPT !.processed = o]
    /\ raw' = prepare_caller_frame(raw)
    /\ UNCHANGED <<params, out, again, svc>>

\* the three calls in any order, the two calculations interleaved at their copy
NextPipeline ==
    \/ Fetch
    \/ PivotsBegin
    \/ PivotsEnd
    \/ VolatilityBegin
    \/ VolatilityEnd
    \/ PrepareChart

SpecPipeline == InitPipeline /\ [][NextPipeline]_vars

\* calculate_pivot_points with the arithmetic of the machine
InitFloat ==
    /\ raw \in FloatTables
    /\ params = DefaultParams
    /\ out = NoResult
    /\ again = NoResult
    /\ pipe = NoPipeline
    /\ svc = NoService

FloatCalculatePivotPoints ==
    /\ out.status = "none"
    /\ out' = float_calculate_pivot_points(raw)
    /\ raw' = pivot_caller_frame(raw)
    /\ UNCHANGED <<params, again, pipe, svc>>

NextFloat == FloatCalculatePivotPoints

SpecFloat == InitFloat /\ [][NextFloat]_vars

\* a client of APIService: up to MaxCalls calls of its methods, and close()
InitService ==
    /\ raw = Table(<<>>, RangeIndex, <<>>)
    /\ params = DefaultParams
    /\ out = NoResult
    /\ again = NoResult
    /\ pipe = NoPipeline
    /\ svc = NewService

\* convert_currency(from_currency, to_currency, amount)
ConvertCurrency ==
    /\ svc.calls < MaxCalls
    /\ \E from_currency \in Codes, to_currency \in Codes, amount \in Amounts :
          IF convert_arguments_valid(from_currency, to_currency, amount)
          THEN \E response \in Responses : \E o \in make_request(response) :
                  svc' = requested(svc, "convert_currency",
                                   <<from_currency, to_currency, amount>>, response, o,
                                   convert_result(response))
          ELSE svc' = rejected(svc, "convert_currency",
                               <<from_currency, to_currency, amount>>,
                               convert_argument_error(from_currency, to_currency, amount))
    /\ UNCHANGED <<raw, params, out, again, pipe>>

\* get_historical_data(currency_pair, start_date, end_date)
GetHistoricalData ==
    /\ svc.calls < MaxCalls
    /\ \E currency_pair \in Pairs, start_date \in Days, end_date \in Days :
          IF history_arguments_valid(currency_pair, start_date, end_date)
          THEN \E response \in Responses :
                  \E o \in make_request(response), result \in history_results[response] :
                  svc' = requested(svc, "get_historical_data",
                                   <<currency_pair, start_date, end_date>>,
                                   response, o, result)
          ELSE svc' = rejected(svc, "get_historical_data",
                               <<currency_pair, start_date, end_date>>,
                               history_argument_error(currency_pair, start_date, end_date))
    /\ UNCHANGED <<raw, params, out, again, pipe>>

\* get_currency_list()
GetCurrencyList ==
    /\ svc.calls < MaxCalls
    /\ \E response \in Responses : \E o \in make_request(response) :
          svc' = requested(svc, "get_currency_list", <<>>, response, o,
                           currency_list_result(response))
    /\ UNCHANGED <<raw, params, out, again, pipe>>

\* close()
Close ==
    /\ svc' = service_close(svc)
    /\ UNCHANGED <<raw, params, out, again, pipe>>

NextService ==
    \/ ConvertCurrency
    \/ GetHistoricalData
    \/ GetCurrencyList
    \/ Close

SpecService == InitService /\ [][NextService]_vars

NextIdem == PrepareChartData \/ PrepareChartDataAgain

SpecIdem == Init /\ [][NextIdem]_vars

----------------------------------------------------------------------------
(* Vocabulary of the properties: what the specification says of a raw row,  *)
(* stated on the raw table and not through the normalizer's operators       *)

Called == out.status # "none"
Succeeded == out.status = "ok"
Failed == out.status = "error"

\* the failure for a structurally unusable table, as opposed to one whose rows
\* were all filtered out: both are ValueError, told apart by the raise statement
EmptyResultError ==
    Failed /\ out.exc = "ValueError" /\ out.msg = "No valid OHLC data after cleaning"
SchemaError == Failed /\ out.exc = "ValueError" /\ ~EmptyResultError

Canonical == <<S_date, S_open, S_high, S_low, S_close>>

\* the raw cells of row i, aligned with the columns of the result (the index
\* value first when the index was moved into a column)
InputCells(i) ==
    IF Len(out.columns) = Len(raw.columns) + 1
    THEN <<raw.rows[i].idx>> \o raw.rows[i].cells
    ELSE raw.rows[i].cells

Pos(columns, label) == CHOOSE j \in 1..Len(columns) : columns[j] = label

\* the raw value of row i in the field the result calls label
RawField(i, label) == InputCells(i)[Pos(out.columns, label)]

DateParses(c) == c.k \in {"ts", "iso", "num"}
Coerces(c) == c.k \in {"num", "numstr"}

\* low <= open <= high and low <= close <= high
Consistent(open, high, low, close) ==
    /\ low <= open /\ open <= high
    /\ low <= close /\ close <= high

\* raw row i has a date that parses, four prices that coerce, and is consistent
ValidRaw(i) ==
    /\ DateParses(RawField(i, S_date))
    /\ \A f \in required_ohlc : Coerces(RawField(i, f))
    /\ Consistent(RawField(i, S_open).v, RawField(i, S_high).v,
                  RawField(i, S_low).v, RawField(i, S_close).v)

\* raw row i as it must appear in the result: the day and the numbers it denotes
Unrepaired(i) ==
    [j \in 1..Len(out.columns) |->
        IF out.columns[j] = S_date THEN Cell("ts", InputCells(i)[j].v)
        ELSE IF out.columns[j] \in required_ohlc THEN Cell("num", InputCells(i)[j].v)
        ELSE InputCells(i)[j]]

Occurrences(rows, x) == Cardinality({j \in 1..Len(rows) : rows[j] = x})

ValidRawRows == {i \in 1..Len(raw.rows) : ValidRaw(i)}

OutDate(j) == out.rows[j][Pos(out.columns, S_date)].v
OutPrice(j, label) == out.rows[j][Pos(out.columns, label)]

----------------------------------------------------------------------------
(* Properties *)

\* C1: a successful result holds exactly the raw rows whose date parses, whose
\* open/high/low/close coerce to numbers and which are OHLC-consistent, each
\* as often as it occurs in the input and with the values it had; every other
\* row is absent.
C1_ExactlyValidRowsKept ==
    Succeeded =>
        \A x \in Range(out.rows) \cup {Unrepaired(i) : i \in ValidRawRows} :
            Occurrences(out.rows, x)
                = Cardinality({i \in ValidRawRows : Unrepaired(i) = x})

\* a call that kept a row given as strings and dropped another row
C1_Witness ==
    /\ Succeeded
    /\ \E i \in 1..Len(raw.rows) : ValidRaw(i) /\ RawField(i, S_high).k = "numstr"
    /\ \E i \in 1..Len(raw.rows) : ~ValidRaw(i)

\* C2: every row of a returned table has numeric prices with
\* low <= open <= high and low <= close <= high.
C2_OutputRowsConsistent ==
    Succeeded =>
        \A j \in 1..Len(out.rows) :
            /\ \A f \in required_ohlc : OutPrice(j, f).k = "num"
            /\ Consistent(OutPrice(j, S_open).v, OutPrice(j, S_high).v,
                          OutPrice(j, S_low).v, OutPrice(j, S_close).v)

\* a call that succeeded on a table holding a numeric row with low > high
C2_Witness ==
    /\ Succeeded
    /\ \E i \in 1..Len(raw.rows) :
        /\ \A f \in required_ohlc : RawField(i, f).k = "num"
        /\ RawField(i, S_low).v > RawField(i, S_high).v

\* C3: the normalizer never returns a table without rows, and a table with a
\* resolvable header none of whose rows is valid ends in an error.
C3_NeverEmptySuccess ==
    /\ Succeeded => Len(out.rows) > 0
    /\ (Called /\ lower_columns(raw.columns) = Canonical
            /\ \A i \in 1..Len(raw.rows) :
                  ~(/\ DateParses(raw.rows[i].cells[1])
                    /\ \A k \in 2..5 : Coerces(raw.rows[i].cells[k])
                    /\ Consistent(raw.rows[i].cells[2].v, raw.rows[i].cells[3].v,
                                  raw.rows[i].cells[4].v, raw.rows[i].cells[5].v)))
        => Failed

\* a call on a table with rows, all of them filtered out
C3_Witness == EmptyResultError /\ Len(raw.rows) > 0

\* no field of the raw table is named date, whatever the case
NoDateField == \A i \in 1..Len(raw.columns) : strip(lower(raw.columns[i])) # S_date

\* the prefixes that resolve to each canonical name
Aliases(label) ==
    CASE label = S_open -> {S_open, S_o}
      [] label = S_high -> {S_high, S_h}
      [] label = S_low -> {S_low, S_l}
      [] label = S_close -> {S_close, S_c, S_last}

\* no field of the raw table matches a prefix of the canonical name
Unresolvable(label) ==
    \A i \in 1..Len(raw.columns) :
        \A p \in Aliases(label) : ~startswith(strip(lower(raw.columns[i])), p)

\* C4: a table with no date field and no chronological index, or with a
\* canonical price name no field resolves to, fails with the schema error and
\* no table is returned.
C4_SchemaErrorWhenFieldsAbsent ==
    (Called /\ ((NoDateField /\ raw.index.kind # "datetime")
                    \/ \E f \in required_ohlc : Unresolvable(f)))
        => SchemaError /\ out.rows = <<>>

\* a call on a table with a date field and no field for close
C4_Witness ==
    /\ Called
    /\ ~NoDateField
    /\ Unresolvable(S_close)
    /\ \A f \in required_ohlc \ {S_close} : ~Unresolvable(f)

\* C5: a table with fields Date, Open, High, Low, Close and no chronological
\* index normalizes successfully to date, open, high, low, close with every
\* consistent row preserved.
C5_DateFieldCaseInsensitive ==
    (Called /\ raw.columns = <<S_Date, S_Open, S_High, S_Low, S_Close>>
            /\ raw.index.kind = "range")
        => /\ Succeeded
           /\ out.columns = Canonical
           /\ Len(out.rows) = Len(raw.rows)

\* C6: a table with no date field and a chronological index, named or not,
\* normalizes successfully and the result has a field date holding the index.
C6_IndexExposedAsDate ==
    (Called /\ raw.columns = <<S_Open, S_High, S_Low, S_Close>>
            /\ raw.index.kind = "datetime")
        => /\ Succeeded
           /\ Occurrences(out.columns, S_date) = 1
           /\ {OutDate(j) : j \in 1..Len(out.rows)}
                = {raw.rows[i].idx.v : i \in 1..Len(raw.rows)}

\* C7: after alias resolution the table has at most one field named open, one
\* named high, one named low and one named close.
C7_CanonicalNamesUnique ==
    Called => \A f \in required_ohlc : Occurrences(out.columns, f) <= 1

\* C8: a field whose case-folded name starts with "last" is never resolved to
\* low, and is resolved to close when no earlier field was resolved to close.
C8_LastResolvesToClose ==
    (Called /\ out.columns # <<>>) =>
        \A i \in 1..Len(out.lowered) :
            startswith(out.lowered[i], S_last) =>
                /\ out.columns[i] # S_low
                /\ (\A j \in 1..i - 1 : out.columns[j] # S_close)
                       => out.columns[i] = S_close

\* C9: the rows of a returned table are in ascending order of date.
C9_SortedAscending ==
    Succeeded => \A j \in 1..Len(out.rows) - 1 : OutDate(j) <= OutDate(j + 1)

\* a call that succeeded on a table whose valid rows came in descending order
C9_Witness ==
    /\ Succeeded
    /\ \E i, k \in ValidRawRows : i < k /\ RawField(i, S_date).v > RawField(k, S_date).v

\* C10 as stated: the rows of a returned table are strictly increasing by
\* timestamp, no two rows carry the same timestamp.
C10_StrictlyIncreasing ==
    Succeeded => \A j \in 1..Len(out.rows) - 1 : OutDate(j) < OutDate(j + 1)

\* C10 amended: no row of a returned table precedes a row of an earlier
\* timestamp, and no duplicate is removed: each timestamp has as many rows in
\* the result as the raw table has valid rows of that date.
C10_DuplicateDatesRetained ==
    Succeeded =>
        /\ \A j, k \in 1..Len(out.rows) : j < k => ~(OutDate(k) < OutDate(j))
        /\ \A i \in ValidRawRows :
              Cardinality({j \in 1..Len(out.rows) : OutDate(j) = RawField(i, S_date).v})
                = Cardinality({k \in ValidRawRows :
                                  RawField(k, S_date).v = RawField(i, S_date).v})

\* a returned table with two rows of the same timestamp
C10_Witness ==
    /\ Succeeded
    /\ \E j \in 1..Len(out.rows) - 1 : OutDate(j) = OutDate(j + 1)

\* C11: normalizing the result of a successful normalization succeeds and
\* yields the same field names and the same rows in the same order.
C11_Idempotent ==
    again.status # "none" =>
        /\ again.status = "ok"
        /\ again.columns = out.columns
        /\ again.rows = out.rows

\* what the second normalization does keep: the field names and every row, as
\* often as it occurs (rows of equal date may change places)
C11_SameRowsAnyTieOrder ==
    again.status # "none" =>
        /\ again.status = "ok"
        /\ again.columns = out.columns
        /\ \A x \in Range(out.rows) \cup Range(again.rows) :
              Occurrences(again.rows, x) = Occurrences(out.rows, x)

----------------------------------------------------------------------------
(* Volatility: vocabulary *)

\* the failure raised by the parameter checks of lines 90-93
InvalidParameterError ==
    /\ Failed
    /\ out.exc = "ValueError"
    /\ out.msg \in {"Price column not found", "window_size must be integer >= 2"}

PriceFieldPresent == params.price_col \in Range(raw.columns)

WindowValid == params.window_size >= 2

\* the raw price of row i
RawPrice(i) == column_of(raw, params.price_col)[i]

IsPositive(c) == c.k = "num" /\ c.v > 0
IsNonPositive(c) == c.k = "num" /\ c.v <= 0

\* the positions (1 = first row) of the input rows that the output holds
OutPositions == [j \in 1..Len(out.rows) |-> out.rows[j].idx.v]

\* the log-return and volatility cells of output row j
OutLogReturn(j) == at(out.columns, out.rows[j].cells, params.price_col \o S_log_ret)
OutHV(j) == at(out.columns, out.rows[j].cells, S_hv)

\* C12: with window < 2 or the price field absent the volatility calculation
\* fails with the parameter error and returns no table.
C12_ParameterErrorWhenInvalid ==
    (Called /\ (params.window_size < 2 \/ ~PriceFieldPresent)) =>
        /\ InvalidParameterError
        /\ out.columns = <<>>
        /\ out.rows = <<>>

\* a window of one row on a present field, with rows enough to compute on: the
\* call fails instead of computing with a window of two
C12_Witness ==
    /\ InvalidParameterError
    /\ PriceFieldPresent
    /\ params.window_size = 1
    /\ Len(raw.rows) >= 3

\* C13: for strictly positive prices and a window >= 2 the output is exactly
\* the rows from index 2 on (the third row), whatever the window size.
C13_OutputFromIndexTwo ==
    (/\ Called
     /\ PriceFieldPresent
     /\ WindowValid
     /\ \A i \in 1..Len(raw.rows) : IsPositive(RawPrice(i))) =>
        /\ Succeeded
        /\ OutPositions =
              [j \in 1..(IF Len(raw.rows) > 2 THEN Len(raw.rows) - 2 ELSE 0) |-> j + 2]

\* four positive prices and a window of three rows: the third row is returned
\* although its window holds two returns only
C13_Witness ==
    /\ Succeeded
    /\ params.window_size = 3
    /\ Len(raw.rows) = 4
    /\ \A i \in 1..Len(raw.rows) : IsPositive(RawPrice(i))
    /\ OutPositions = <<3, 4>>

\* C14: a zero or negative price never raises; every row whose previous or
\* current price is <= 0 is absent from the output, and every output row has
\* a finite log return and a defined volatility.
C14_NonPositivePricesDropped ==
    (Called /\ PriceFieldPresent /\ WindowValid) =>
        /\ Succeeded
        /\ \A j \in 1..Len(out.rows) :
              /\ OutLogReturn(j).k = "num"
              /\ OutHV(j).k = "num"
        /\ \A i \in 1..Len(raw.rows) :
              (\/ IsNonPositive(RawPrice(i))
               \/ (i > 1 /\ IsNonPositive(RawPrice(i - 1))))
                 => i \notin Range(OutPositions)

\* C15: historical volatility is >= 0 in every row of the volatility output.
C15_VolatilityNonNegative ==
    (Called /\ PriceFieldPresent /\ WindowValid) =>
        /\ Succeeded
        /\ \A j \in 1..Len(out.rows) : OutHV(j).k = "num" /\ OutHV(j).v >= 0

\* an output with a row of positive volatility after falling prices
C15_Witness ==
    /\ Succeeded
    /\ PriceFieldPresent
    /\ \E j \in 1..Len(out.rows) :
          /\ OutHV(j).v > 0
          /\ OutLogReturn(j).k = "num"
          /\ OutLogReturn(j).v < 0

----------------------------------------------------------------------------
(* Pivot points: vocabulary *)

\* the failure raised by _ensure_columns
MissingColumnError ==
    /\ Failed
    /\ out.exc = "ValueError"
    /\ out.msg = "DataFrame missing required columns"

PivotFieldsPresent == {S_high, S_low, S_close} \subseteq Range(raw.columns)

\* the number that field label of bar i (1 = first bar) stands for
Bar(i, label) == to_numeric(at(raw.columns, raw.rows[i].cells, label))

\* bar i has a number in high, low and close
BarNumeric(i) == \A label \in {S_high, S_low, S_close} : Bar(i, label).k = "num"

\* three times the level of output row j
OutLevel3(j, label) == at(out.columns, out.rows[j].cells, label).v

\* high, low and close of the bar before the one output row j stands for
PrevHigh(j) == Bar(out.rows[j].idx.v - 1, S_high).v
PrevLow(j) == Bar(out.rows[j].idx.v - 1, S_low).v
PrevClose(j) == Bar(out.rows[j].idx.v - 1, S_close).v

\* C16: the seven levels of every output row are computed from the previous
\* bar's high, low and close by the classic formulas (in thirds: three times
\* the pivot is prevHigh + prevLow + prevClose).
C16_LevelsFromPreviousBar ==
    (Called /\ PivotFieldsPresent) =>
        /\ Succeeded
        /\ \A j \in 1..Len(out.rows) :
              LET H == PrevHigh(j)
                  L == PrevLow(j)
                  P3 == PrevHigh(j) + PrevLow(j) + PrevClose(j)
              IN  /\ out.rows[j].idx.v > 1
                  /\ BarNumeric(out.rows[j].idx.v - 1)
                  /\ OutLevel3(j, S_pivot) = P3
                  /\ OutLevel3(j, S_r1) = 2 * P3 - 3 * L
                  /\ OutLevel3(j, S_s1) = 2 * P3 - 3 * H
                  /\ OutLevel3(j, S_r2) = P3 + 3 * (H - L)
                  /\ OutLevel3(j, S_s2) = P3 - 3 * (H - L)
                  /\ OutLevel3(j, S_r3) = 3 * H + 2 * (P3 - 3 * L)
                  /\ OutLevel3(j, S_s3) = 3 * L - 2 * (3 * H - P3)

\* an output row whose own bar differs from the previous bar in high, low and
\* close
C16_Witness ==
    /\ Succeeded
    /\ PivotFieldsPresent
    /\ \E j \in 1..Len(out.rows) :
          LET i == out.rows[j].idx.v
          IN  /\ BarNumeric(i)
              /\ Bar(i, S_high).v # PrevHigh(j)
              /\ Bar(i, S_low).v # PrevLow(j)
              /\ Bar(i, S_close).v # PrevClose(j)

\* C17: when high, low or close is absent the pivot calculation fails with
\* the missing-column error and returns nothing.
C17_MissingColumnError ==
    (Called /\ ~PivotFieldsPresent) =>
        /\ MissingColumnError
        /\ out.columns = <<>>
        /\ out.rows = <<>>

\* a series with rows that lacks one field only
C17_Witness ==
    /\ MissingColumnError
    /\ Len(raw.rows) > 0
    /\ S_high \notin Range(raw.columns)
    /\ {S_low, S_close} \subseteq Range(raw.columns)

\* C18: for n bars that all have numbers in high, low and close the output is
\* bars 2..n in input order (n - 1 rows), OHLC-consistent or not.
C18_OnlyFirstBarDropped ==
    (/\ Called
     /\ PivotFieldsPresent
     /\ \A i \in 1..Len(raw.rows) : BarNumeric(i)) =>
        /\ Succeeded
        /\ OutPositions = [j \in 1..(Len(raw.rows) - 1) |-> j + 1]

\* three bars, one of them with its high below its low, and two output rows
C18_Witness ==
    /\ Succeeded
    /\ PivotFieldsPresent
    /\ Len(raw.rows) = 3
    /\ \A i \in 1..Len(raw.rows) : BarNumeric(i)
    /\ \E i \in 2..Len(raw.rows) : Bar(i, S_high).v < Bar(i, S_low).v
    /\ OutPositions = <<2, 3>>

\* C19: in every output row r1 - pivot = pivot - s1 and r2 - pivot =
\* pivot - s2.
C19_FirstSecondLevelsSymmetric ==
    Succeeded =>
        \A j \in 1..Len(out.rows) :
            /\ OutLevel3(j, S_r1) - OutLevel3(j, S_pivot)
                  = OutLevel3(j, S_pivot) - OutLevel3(j, S_s1)
            /\ OutLevel3(j, S_r2) - OutLevel3(j, S_pivot)
                  = OutLevel3(j, S_pivot) - OutLevel3(j, S_s2)

\* C19 as the formulas give it: r2 and s2 lie at the same distance prevHigh -
\* prevLow from the pivot; r1 lies pivot - prevLow above it and s1 lies
\* prevHigh - pivot below it, which are equal exactly when the pivot is the
\* midpoint of prevHigh and prevLow.
C19_SecondLevelsSymmetric ==
    Succeeded =>
        \A j \in 1..Len(out.rows) :
            LET P3 == OutLevel3(j, S_pivot)
            IN  /\ OutLevel3(j, S_r2) - P3 = 3 * (PrevHigh(j) - PrevLow(j))
                /\ P3 - OutLevel3(j, S_s2) = 3 * (PrevHigh(j) - PrevLow(j))
                /\ OutLevel3(j, S_r1) - P3 = P3 - 3 * PrevLow(j)
                /\ P3 - OutLevel3(j, S_s1) = 3 * PrevHigh(j) - P3
                /\ (OutLevel3(j, S_r1) - P3 = P3 - OutLevel3(j, S_s1))
                      <=> (2 * P3 = 3 * (PrevHigh(j) + PrevLow(j)))

\* an output row after a bar that closed at its low: r1 and s1 are not at the
\* same distance from the pivot, r2 and s2 are
C19_Witness ==
    /\ Succeeded
    /\ \E j \in 1..Len(out.rows) :
          /\ PrevHigh(j) > PrevLow(j)
          /\ PrevClose(j) = PrevLow(j)
          /\ OutLevel3(j, S_r1) - OutLevel3(j, S_pivot)
                # OutLevel3(j, S_pivot) - OutLevel3(j, S_s1)
          /\ OutLevel3(j, S_r2) - OutLevel3(j, S_pivot)
                = OutLevel3(j, S_pivot) - OutLevel3(j, S_s2)

----------------------------------------------------------------------------
(* Frame effect *)

\* C20: no call of the normalizer, the volatility calculation or the pivot
\* calculation changes the caller's table, whether the call succeeds or fails.
C20_InputNotMutated == [][raw' = raw]_vars

\* after a pivot calculation that returned a row with a number for high where
\* the caller's table has a numeric string, the caller's table still has the
\* string and no pivot column
C20_Witness ==
    /\ Succeeded
    /\ S_pivot \in Range(out.columns)
    /\ S_pivot \notin Range(raw.columns)
    /\ \E k \in 1..Len(out.rows) :
          /\ at(out.columns, out.rows[k].cells, S_high).k = "num"
          /\ at(raw.columns, raw.rows[out.rows[k].idx.v].cells, S_high).k = "numstr"

----------------------------------------------------------------------------
(* The application's run: vocabulary *)

\* the frame the fetch returned, as one calculation alone would get it
FetchedSeries == fetched_frame(pipe.fetched)

\* C21: the pivot table and the volatility table are those of the fetched
\* series alone, in whatever order and however interleaved the two
\* calculations (and the chart preparation) run.
C21_CalculationsIndependent ==
    /\ pipe.pivots.status # "none" => pipe.pivots = calculate_pivot_points(FetchedSeries)
    /\ pipe.hv.status # "none" =>
          pipe.hv = calculate_historical_volatility(FetchedSeries, params.window_size,
                                                    params.price_col)

\* the two calculations interleaved: the pivot table is there, with rows, and
\* so is the chart table, while the volatility calculation is between its copy
\* and its result
C21_Witness ==
    /\ pipe.pivots.status = "ok"
    /\ Len(pipe.pivots.rows) >= 2
    /\ pipe.hv_at = "copied"
    /\ pipe.processed.status = "ok"

\* the days of the fetched rows that violate low <= open <= high or
\* low <= close <= high (one record per day: the day tells the raw row)
InconsistentDays ==
    {r.idx.v : r \in {q \in Range(pipe.fetched.rows) :
        ~Consistent(at(pipe.fetched.columns, q.cells, S_open).v,
                    at(pipe.fetched.columns, q.cells, S_high).v,
                    at(pipe.fetched.columns, q.cells, S_low).v,
                    at(pipe.fetched.columns, q.cells, S_close).v)}}

\* the days of the rows of the three derived tables
PivotDays == {r.idx.v : r \in Range(pipe.pivots.rows)}
VolatilityDays == {r.idx.v : r \in Range(pipe.hv.rows)}
ChartDays == {at(pipe.processed.columns, r, S_date).v : r \in Range(pipe.processed.rows)}

\* C22: no row of the pivot table, the volatility table or the chart table
\* comes from a raw row that violates OHLC consistency.
C22_NoInconsistentRowDerived ==
    (PivotDays \cup VolatilityDays \cup ChartDays) \cap InconsistentDays = {}

\* a is b without some of its elements, the others in the order of b
RECURSIVE IsSubsequence(_, _)
IsSubsequence(a, b) ==
    IF a = <<>> THEN TRUE
    ELSE IF b = <<>> THEN FALSE
    ELSE IF Head(a) = Head(b) THEN IsSubsequence(Tail(a), Tail(b))
    ELSE IsSubsequence(a, Tail(b))

\* the days of the rows of a derived table, in the order of the table
DaysOf(rows) == [j \in 1..Len(rows) |-> rows[j].idx.v]

\* the rows of a derived table cut down to the columns of the fetched series
InputPart(rows) ==
    [j \in 1..Len(rows) |->
        [idx |-> rows[j].idx,
         cells |-> SubSeq(rows[j].cells, 1, Len(pipe.fetched.columns))]]

Ascending(days) == \A j \in 1..Len(days) - 1 : days[j] <= days[j + 1]

\* C23: the fetched series is ascending by date, the pivot table and the
\* volatility table are order-preserving subsequences of it, and the chart
\* table is ascending by date.
C23_DerivedTablesAscending ==
    /\ Ascending(DaysOf(pipe.fetched.rows))
    /\ pipe.pivots.status = "ok" =>
          /\ IsSubsequence(InputPart(pipe.pivots.rows), pipe.fetched.rows)
          /\ Ascending(DaysOf(pipe.pivots.rows))
    /\ pipe.hv.status = "ok" =>
          /\ IsSubsequence(InputPart(pipe.hv.rows), pipe.fetched.rows)
          /\ Ascending(DaysOf(pipe.hv.rows))
    /\ pipe.processed.status = "ok" =>
          Ascending([j \in 1..Len(pipe.processed.rows) |->
                        at(pipe.processed.columns, pipe.processed.rows[j], S_date).v])

\* a fetched series of MaxBars days and three derived tables of two rows or
\* more
C23_Witness ==
    /\ pipe.fetched.status = "ok"
    /\ Len(pipe.fetched.rows) = MaxBars
    /\ Len(pipe.pivots.rows) >= 2
    /\ Len(pipe.hv.rows) >= 2
    /\ Len(pipe.processed.rows) >= 2

----------------------------------------------------------------------------
(* The two failures of the normalizer *)

\* a date field or a chronological index, and a field for each of open, high,
\* low and close
SchemaResolves ==
    /\ ~NoDateField \/ raw.index.kind = "datetime"
    /\ \A f \in required_ohlc : ~Unresolvable(f)

\* C24: the empty-result failure occurs only when the date field and the four
\* OHLC fields were found and no row is valid; a table with a missing required
\* field yields the schema failure, never the empty-result failure, whatever
\* its rows.
C24_EmptyResultOnlyAfterSchema ==
    /\ EmptyResultError =>
          /\ SchemaResolves
          /\ \A c \in Range(Canonical) : label_count(out.columns, c) = 1
          /\ ValidRawRows = {}
    /\ (Called /\ ~SchemaResolves) => (SchemaError /\ ~EmptyResultError)

\* a table without a close field and without a single row: the failure is the
\* schema failure
C24_Witness ==
    /\ SchemaError
    /\ ~NoDateField
    /\ Unresolvable(S_close)
    /\ raw.rows = <<>>

----------------------------------------------------------------------------
(* APIService: error classes, validation, the session *)

LastCall == svc.last

\* the last call issued a request and the response was of one of these kinds
Responded(kinds) == LastCall.requested /\ LastCall.response \in kinds

\* C25: a request whose response is a JSON value that is not an object, or a
\* payload with an error, ends in ValueError, and a request that fails in the
\* network, times out or gets an HTTP error status ends in RuntimeError
C25_ErrorClassesAsDocumented ==
    /\ Responded({"not_object", "api_error"}) =>
            LastCall.status = "error" /\ LastCall.exc = "ValueError"
    /\ Responded({"connection", "timeout", "http_error"}) =>
            LastCall.status = "error" /\ LastCall.exc = "RuntimeError"

\* what _make_request does with these responses: every failure of the request,
\* the two of the payload included, leaves it as RuntimeError
C25_EveryRequestFailureIsRuntimeError ==
    Responded({"not_object", "api_error", "bad_json", "connection", "timeout",
               "http_error"}) =>
        LastCall.status = "error" /\ LastCall.exc = "RuntimeError"

\* the arguments the claim C26 names as invalid
BadCode(a) == ~(a.str /\ a.len = 3)
NonPositiveAmount(a) == ~a.str /\ a.v <= 0
ShortPair(a) == a.str /\ a.len < 4

InvalidCall(call) ==
    \/ /\ call.op = "convert_currency"
       /\ \/ BadCode(call.args[1])
          \/ BadCode(call.args[2])
          \/ NonPositiveAmount(call.args[3])
    \/ /\ call.op = "get_historical_data"
       /\ \/ ShortPair(call.args[1])
          \/ call.args[2].v > call.args[3].v

\* C26: a call of convert_currency with a code that is not a 3-character string
\* or an amount <= 0, or of get_historical_data with a pair shorter than 4
\* characters or start_date > end_date, ends in ValueError, issues no HTTP
\* request and creates no session
C26_ValidationBeforeNetwork ==
    [][(svc'.calls = svc.calls + 1 /\ InvalidCall(svc'.last)) =>
            /\ svc'.last.status = "error"
            /\ svc'.last.exc = "ValueError"
            /\ svc'.gets = svc.gets
            /\ svc'.session = svc.session
            /\ svc'.created = svc.created
            /\ svc'.live = svc.live]_vars

\* a fresh service has rejected start_date > end_date for a good pair
C26_Witness ==
    /\ svc.calls = 1
    /\ LastCall.op = "get_historical_data"
    /\ ~ShortPair(LastCall.args[1]) /\ LastCall.args[1].str
    /\ LastCall.args[2].v > LastCall.args[3].v
    /\ LastCall.exc = "ValueError"
    /\ svc.gets = 0 /\ svc.created = 0 /\ svc.session = 0

\* C27: at most one session exists at a time; there is none before the first
\* request, a request creates one only when there is none and uses the one
\* there is otherwise, close() releases it and changes nothing when there is
\* none, and the request after a close() has a session never used before
C27_OneSessionAtATime ==
    [][/\ Cardinality(svc.live) <= 1 /\ Cardinality(svc'.live) <= 1
       /\ svc'.live = IF svc'.session = 0 THEN {} ELSE {svc'.session}
       /\ svc'.gets = 0 => svc'.session = 0 /\ svc'.created = 0
       /\ svc'.gets = svc.gets + 1 =>
            IF svc.session = 0
            THEN /\ svc'.session \notin 0..svc.created
                 /\ svc'.created = svc.created + 1
            ELSE /\ svc'.session = svc.session
                 /\ svc'.created = svc.created
       /\ (svc'.gets = svc.gets /\ svc'.calls = svc.calls) =>
            /\ svc.session # 0
            /\ svc'.session = 0
            /\ svc'.created = svc.created
            /\ service_close(svc') = svc'
            /\ svc'.last = svc.last]_vars

\* a second session after a close(), used by more than one request
C27_Witness ==
    /\ svc.created = 2
    /\ svc.session = 2
    /\ svc.live = {2}
    /\ svc.gets > svc.created
----------------------------------------------------------------------------
(* The order of the pivot levels *)

\* the levels from the lowest support to the highest resistance
LevelOrder == <<S_s3, S_s2, S_s1, S_pivot, S_r1, S_r2, S_r3>>

\* level number n of output row j, in units
OutLevel(j, n) == at(out.columns, out.rows[j].cells, LevelOrder[n]).v

\* the bar before output row j has low <= close <= high
PrevBarConsistent(j) == PrevLow(j) <= PrevClose(j) /\ PrevClose(j) <= PrevHigh(j)

\* C28: whenever the previous bar has low <= close <= high, the levels of the
\* output row are ordered s3 <= s2 <= s1 <= pivot <= r1 <= r2 <= r3.
C28_LevelsOrdered ==
    Succeeded =>
        \A j \in 1..Len(out.rows) :
            PrevBarConsistent(j) =>
                \A n \in 1..6 : OutLevel(j, n) <= OutLevel(j, n + 1)

\* C28 as the rounded arithmetic gives it: the levels are in that order when
\* the previous bar's high is more than one unit in the last place above its
\* low; for a flatter bar, whose levels lie within a unit of each other, two
\* neighbouring levels are in order or one unit in the last place out of it.
C28_LevelsOrderedUpToRounding ==
    Succeeded =>
        \A j \in 1..Len(out.rows) :
            PrevBarConsistent(j) =>
                /\ \A n \in 1..6 : OutLevel(j, n) <= OutLevel(j, n + 1) + 1
                /\ PrevHigh(j) - PrevLow(j) > 1 =>
                        \A n \in 1..6 : OutLevel(j, n) <= OutLevel(j, n + 1)

\* a flat previous bar whose pivot is rounded below it: the first resistance
\* is below the pivot; the previous bar's prices fill the mantissa
C28_FlatBarOutOfOrder ==
    /\ Succeeded
    /\ \E j \in 1..Len(out.rows) :
          /\ PrevHigh(j) = PrevLow(j)
          /\ PrevClose(j) = PrevLow(j)
          /\ PrevHigh(j) >= 2^(MantissaBits - 1)
          /\ OutLevel(j, 4) < PrevHigh(j)
          /\ OutLevel(j, 5) < OutLevel(j, 4)

\* a previous bar with low < close < high and a pivot that had to be rounded:
\* the seven levels are in strict order
C28_Witness ==
    /\ Succeeded
    /\ \E j \in 1..Len(out.rows) :
          /\ PrevLow(j) < PrevClose(j)
          /\ PrevClose(j) < PrevHigh(j)
          /\ 3 * OutLevel(j, 4) # PrevHigh(j) + PrevLow(j) + PrevClose(j)
          /\ \A n \in 1..6 : OutLevel(j, n) < OutLevel(j, n + 1)

====
